---- MODULE Spec2Model ----
(***************************************************************************)
(* Braille Bridge frontend: the submission review and grading workflow of  *)
(* pages/SubmissionDetail.tsx (load, fallback translation, autograde,      *)
(* accept / reject, artifact export) and the span slicing it shares with   *)
(* components/BrailleRenderer.tsx.                                         *)
(*                                                                         *)
(* The other parts of the frontend have their own variables and their own  *)
(* specifications over the same initial state: lesson-pack generation with *)
(* its progress stream (pages/Assignment.tsx), the service clients         *)
(* (services/*.ts), the submissions browser (pages/Submissions.tsx) and    *)
(* the transliteration utilities (utils/braille.ts, isBraillePattern).     *)
(*                                                                         *)
(* React state is one variable per useState cell.  A handler, together     *)
(* with the effects its state updates schedule, is one action.  Requests   *)
(* in flight are explicit so that every order of arrival is explored.      *)
(***************************************************************************)
EXTENDS Integers, Sequences, FiniteSets, TLC

\* ---------------------------------------------------------------- bounds
MaxLen == 2              \* longest Braille text of a fetched answer
MaxTranslateCalls == 2   \* translateUrduToEnglish calls explored
MaxAutogradeCalls == 1   \* autogradeSubmission calls explored
MaxDownloads == 2        \* downloadFeedback invocations explored

\* ------------------------------------------------- optional values (T | undefined | null)
Undefined == <<>>
Some(v) == <<v>>
IsDefined(o) == o # Undefined
Val(o) == o[1]

\* JS truthiness of an optional string ('' and undefined are falsy)
TruthyStr(o) == IsDefined(o) /\ Val(o) # ""
\* JS truthiness of an optional text kept as a sequence of characters
TruthyText(o) == IsDefined(o) /\ Val(o) # <<>>

Min(a, b) == IF a < b THEN a ELSE b
Max(a, b) == IF a > b THEN a ELSE b

\* ------------------------------------------------------------ pure helpers
\* String.prototype.slice(start, end) on a sequence of characters
RelIndex(len, k) == IF k < 0 THEN Max(len + k, 0) ELSE Min(k, len)

Slice(s, start, end) ==
    LET from == RelIndex(Len(s), start)
        to == RelIndex(Len(s), end)
    IN IF from >= to THEN <<>> ELSE SubSeq(s, from + 1, to)

\* slice(start) with the end omitted
SliceFrom(s, start) == Slice(s, start, Len(s))

\* text.replace(/\n/g, ' ')
ReplaceNewlines(s) == [i \in 1..Len(s) |-> IF s[i] = "\n" THEN " " ELSE s[i]]

\* ------------------------------------------------------------ input domains
BrailleChars == {"a", "\n"}

RECURSIVE TextsUpTo(_)
TextsUpTo(n) ==
    IF n = 0 THEN {<<>>}
    ELSE LET shorter == TextsUpTo(n - 1)
         IN shorter \cup {Append(t, c) : t \in {u \in shorter : Len(u) = n - 1}, c \in BrailleChars}

BrailleTexts == {Undefined} \cup {Some(t) : t \in TextsUpTo(MaxLen)}
UrduTexts == {"", "u"}
EnglishTexts == {Undefined, Some("e")}
TranslationResponses == {"", "e"}
FeedbackTexts == {"c"}
Explanations == {"x"}
ErrorBounds == {Undefined} \cup {Some(n) : n \in 0..(MaxLen + 1)}
SubmissionIds == {"7"}

OtherAnswer ==
    [diagram_idx |-> 1, answer_type |-> "audio", file_path |-> "p2",
     urdu_text |-> "v", english_text |-> Some("w"), braille_text |-> Undefined,
     errors |-> <<>>]

\* what GET /api/submissions/{id} may return for the route id
Submissions(sid) ==
    {[id |-> sid, student |-> "s",
      answers |-> <<[diagram_idx |-> 0, answer_type |-> "image", file_path |-> "p1",
                     urdu_text |-> u, english_text |-> e, braille_text |-> b,
                     errors |-> <<"r">>],
                    OtherAnswer>>,
      assignment |-> [id |-> 1, title |-> "t"]] :
        u \in UrduTexts, e \in EnglishTexts, b \in BrailleTexts}

\* what POST /api/submissions/{id}/autograde may return
AutogradeResults ==
    {[correct |-> c, explanation |-> x, error_start |-> s, error_end |-> e] :
        c \in BOOLEAN, x \in Explanations, s \in ErrorBounds, e \in ErrorBounds}

\* the responses explored by the whole-workflow specification: every shape of
\* answer and grade, one text and one range of each; the export specification
\* below explores every text and every range
SampleText == [i \in 1..MaxLen |-> IF i = 2 THEN "\n" ELSE "a"]

SampleSubmissions(sid) ==
    {d \in Submissions(sid) :
        d.answers[1].braille_text = Some(SampleText)}

SampleGrades ==
    {g \in AutogradeResults :
        \/ g.error_start = Undefined /\ g.error_end = Undefined
        \/ g.error_start = Some(0) /\ g.error_end = Some(1)}

\* ------------------------------------------------------------------ state
VARIABLES
    id,               \* route parameter
    tab, data, loading, error, translating,
    aiGrade, grading, showFeedbackForm, customFeedback,
    fetchReq,         \* fetchSubmission request: idle / pending / ok / failed
    translateReq,     \* latest translateUrduToEnglish request
    gradeReq,         \* latest autogradeSubmission request
    downloads,        \* downloadFeedback invocations, in click order
    artifacts,        \* files handed to the browser, per downloadFeedback invocation
    analyzeLog,       \* analyzeFeedback calls issued, in order
    fetched,          \* the submission as fetchSubmission returned it
    fetchCalls, translateCalls, autogradeCalls,
    alerts,           \* window.alert calls
    acceptClicks, downloadClicks

reactState == <<id, tab, data, loading, error, translating,
                aiGrade, grading, showFeedbackForm, customFeedback>>
requests == <<fetchReq, translateReq, gradeReq>>
history == <<fetched, fetchCalls, translateCalls, autogradeCalls, alerts,
             acceptClicks, downloadClicks>>
exports == <<downloads, artifacts, analyzeLog>>

\* AssignmentPage (pages/Assignment.tsx), mounted on its own route
VARIABLES
    items,            \* diagram items: file (File | null) and prompt
    assignmentLoading,\* the page's `loading` cell
    logs,             \* progress log lines
    streams,          \* the EventSource of each handleGenerate run: open / closed
    runs,             \* each handleGenerate run past validation: where it is suspended
    httpCalls,        \* createAssignment / generateLessonPack requests issued, in order
    assignmentAlerts, \* window.alert messages of the page
    delivered,        \* events dispatched to onmessage since the log was last reset
    generateClicks,   \* clicks on Generate Lesson Pack
    packDownloads     \* lesson_pack.zip downloads triggered

assignmentVars == <<items, assignmentLoading, logs, streams, runs, httpCalls,
                    assignmentAlerts, delivered, generateClicks, packDownloads>>

\* the service clients (services/*.ts), called from any page
VARIABLES
    serviceCalls      \* one record per call of a client operation, in call order

serviceVars == <<serviceCalls>>

\* SubmissionsPage (pages/Submissions.tsx), mounted on its own route
VARIABLES
    assignments, selected, submissions,
    assignmentsReq,       \* the fetchAssignments request of the mount effect
    submissionsReqs,      \* one fetchSubmissions request per assignment click
    fetchAssignmentsCalls

submissionsVars == <<assignments, selected, submissions, assignmentsReq,
                     submissionsReqs, fetchAssignmentsCalls>>

\* the transliteration utilities (utils/braille.ts, BrailleRenderer.tsx) applied
\* to one input text
VARIABLES
    brailleInput,     \* the text, as its UTF-16 code units
    transliterated,   \* toBraille(brailleInput), once computed
    detected,         \* isBraillePattern(brailleInput), once computed
    rendered,         \* what BrailleRenderer displayed for brailleInput
    fromToBraille     \* brailleInput is itself a result of toBraille

brailleVars == <<brailleInput, transliterated, detected, rendered, fromToBraille>>

\* SubmissionDetail kept mounted while its route parameter changes
VARIABLES
    staleFetches,     \* fetchSubmission requests issued for an earlier route id
    gradeTarget,      \* the earlier id a pending autograde request was issued for
    routeChanges      \* route parameter changes so far

routeVars == <<staleFetches, gradeTarget, routeChanges>>

\* FeedbackComposer
VARIABLES
    composerFeedback, \* useState feedback, as UTF-16 code units
    lang,             \* useState lang
    braillePreview,   \* useState braillePreview, as UTF-16 code units
    previewReqs,      \* translateTextToBraille calls: arguments, state, result
    svgExports        \* the Braille text of every exported SVG

composerVars == <<composerFeedback, lang, braillePreview, previewReqs, svgExports>>

\* StudentsPage
VARIABLES
    students,         \* useState students
    selectedStudent,  \* useState selected
    studentsReq       \* fetchStudents of the mount effect

studentVars == <<students, selectedStudent, studentsReq>>

detailVars == <<reactState, requests, history, exports>>

\* what a step of one page leaves alone: the router mounts one page at a time
otherPages == <<assignmentVars, serviceVars, submissionsVars, brailleVars, routeVars,
                composerVars, studentVars>>
notAssignment == <<detailVars, serviceVars, submissionsVars, brailleVars, routeVars,
                   composerVars, studentVars>>
notServices == <<detailVars, assignmentVars, submissionsVars, brailleVars, routeVars,
                 composerVars, studentVars>>
notSubmissions == <<detailVars, assignmentVars, serviceVars, brailleVars, routeVars,
                    composerVars, studentVars>>
notBraille == <<detailVars, assignmentVars, serviceVars, submissionsVars, routeVars,
                composerVars, studentVars>>
notDetail == <<assignmentVars, serviceVars, submissionsVars, brailleVars,
               composerVars, studentVars>>
notComposer == <<detailVars, assignmentVars, serviceVars, submissionsVars, brailleVars,
                 routeVars, studentVars>>
notStudents == <<detailVars, assignmentVars, serviceVars, submissionsVars, brailleVars,
                 routeVars, composerVars>>
vars == <<detailVars, otherPages>>

DetailInit ==
    /\ id \in SubmissionIds
    /\ tab = 0
    /\ data = Undefined
    /\ loading = TRUE
    /\ error = Undefined
    /\ translating = FALSE
    /\ aiGrade = Undefined
    /\ grading = FALSE
    /\ showFeedbackForm = FALSE
    /\ customFeedback = ""
    /\ fetchReq = "idle"
    /\ translateReq = "idle"
    /\ gradeReq = "idle"
    /\ downloads = <<>>
    /\ artifacts = <<>>
    /\ analyzeLog = <<>>
    /\ fetched = Undefined
    /\ fetchCalls = 0
    /\ translateCalls = 0
    /\ autogradeCalls = 0
    /\ alerts = 0
    /\ acceptClicks = 0
    /\ downloadClicks = 0

AssignmentInit ==
    /\ items = <<[file |-> Undefined, prompt |-> <<>>]>>
    /\ assignmentLoading = FALSE
    /\ logs = <<>>
    /\ streams = <<>>
    /\ runs = <<>>
    /\ httpCalls = <<>>
    /\ assignmentAlerts = <<>>
    /\ delivered = <<>>
    /\ generateClicks = 0
    /\ packDownloads = 0

ServicesInit == serviceCalls = <<>>

SubmissionsInit ==
    /\ assignments = <<>>
    /\ selected = Undefined
    /\ submissions = <<>>
    /\ assignmentsReq = "idle"
    /\ submissionsReqs = <<>>
    /\ fetchAssignmentsCalls = 0

RouteInit ==
    /\ staleFetches = <<>>
    /\ gradeTarget = Undefined
    /\ routeChanges = 0

ComposerInit ==
    /\ composerFeedback = <<>>
    /\ lang = "urdu"
    /\ braillePreview = <<>>
    /\ previewReqs = <<>>
    /\ svgExports = <<>>

StudentsInit ==
    /\ students = <<>>
    /\ selectedStudent = Undefined
    /\ studentsReq = "idle"

PagesInit ==
    /\ DetailInit /\ AssignmentInit /\ ServicesInit /\ SubmissionsInit /\ RouteInit
    /\ ComposerInit /\ StudentsInit

\* nothing transliterated, detected or rendered yet
RendererIdle ==
    /\ transliterated = Undefined
    /\ detected = Undefined
    /\ rendered = Undefined
    /\ fromToBraille = FALSE

Init == PagesInit /\ brailleInput = <<>> /\ RendererIdle

\* which of the three returns of the component body is taken
View ==
    IF loading THEN "Loading"
    ELSE IF IsDefined(error) \/ ~IsDefined(data) THEN "Error"
    ELSE "Loaded"

\* const answer = data.answers[0]
FirstAnswer(d) == d.answers[1]

\* ------------------------------------------------------------ load effect
LoadEffect ==
    /\ fetchReq = "idle"
    /\ id \in SubmissionIds
    /\ loading' = TRUE
    /\ fetchReq' = "pending"
    /\ fetchCalls' = fetchCalls + 1
    /\ UNCHANGED <<otherPages, fetched, id, tab, data, error, translating, aiGrade, grading,
                   showFeedbackForm, customFeedback, translateReq, gradeReq,
                   translateCalls, autogradeCalls, alerts, acceptClicks,
                   downloadClicks, exports>>

\* the guard of the translation effect, evaluated on the data it is run for
TranslationNeeded(d) ==
    /\ IsDefined(d)
    /\ ~(TruthyStr(FirstAnswer(Val(d)).english_text) \/ FirstAnswer(Val(d)).urdu_text = "")

FetchResolve(d) ==
    /\ fetchReq = "pending"
    /\ fetchReq' = "ok"
    /\ data' = Some(d)
    /\ fetched' = Some(d)
    /\ loading' = FALSE
    /\ IF TranslationNeeded(Some(d))
       THEN /\ translating' = TRUE
            /\ translateReq' = "pending"
            /\ translateCalls' = translateCalls + 1
       ELSE UNCHANGED <<translating, translateReq, translateCalls>>
    /\ UNCHANGED <<otherPages, id, tab, error, aiGrade, grading, showFeedbackForm, customFeedback,
                   gradeReq, fetchCalls, autogradeCalls, alerts, acceptClicks,
                   downloadClicks, exports>>

\* FetchReject without the .finally: the spinner is never cleared
FetchReject_KeepsLoading ==
    /\ fetchReq = "pending"
    /\ fetchReq' = "failed"
    /\ error' = Some("Failed to load submission")
    /\ UNCHANGED <<otherPages, id, tab, data, loading, translating, aiGrade, grading, showFeedbackForm,
                   customFeedback, translateReq, gradeReq, history, exports>>

FetchReject ==
    /\ fetchReq = "pending"
    /\ fetchReq' = "failed"
    /\ error' = Some("Failed to load submission")
    /\ loading' = FALSE
    /\ UNCHANGED <<otherPages, id, tab, data, translating, aiGrade, grading, showFeedbackForm,
                   customFeedback, translateReq, gradeReq, history, exports>>

\* ------------------------------------------------ translation fallback effect
\* TranslateResolve whose merge rebuilds the first answer from the translation
\* alone and so loses its Braille text
TranslateResolve_DropsBraille(eng) ==
    /\ translateReq = "pending"
    /\ IsDefined(data)
    /\ data' = Some([Val(data) EXCEPT !.answers[1].english_text = Some(eng),
                                      !.answers[1].braille_text = Undefined])
    /\ translating' = FALSE
    /\ translateReq' = "ok"
    /\ UNCHANGED <<otherPages, fetched, id, tab, loading, error, aiGrade, grading, showFeedbackForm,
                   customFeedback, fetchReq, gradeReq, fetchCalls, translateCalls,
                   autogradeCalls, alerts, acceptClicks, downloadClicks, exports>>

\* .then: merge english_text into the first answer; .finally: clear the
\* indicator; the new data object re-runs the [data] effect
TranslateResolve(eng) ==
    /\ translateReq = "pending"
    /\ IsDefined(data)
    /\ LET updated == [Val(data) EXCEPT !.answers[1].english_text = Some(eng)]
       IN /\ data' = Some(updated)
          /\ IF TranslationNeeded(Some(updated))
             THEN /\ translateCalls < MaxTranslateCalls
                  /\ translating' = TRUE
                  /\ translateReq' = "pending"
                  /\ translateCalls' = translateCalls + 1
             ELSE /\ translating' = FALSE
                  /\ translateReq' = "ok"
                  /\ UNCHANGED translateCalls
    /\ UNCHANGED <<otherPages, fetched, id, tab, loading, error, aiGrade, grading, showFeedbackForm,
                   customFeedback, fetchReq, gradeReq, fetchCalls, autogradeCalls,
                   alerts, acceptClicks, downloadClicks, exports>>

\* TranslateReject that asks again on failure
TranslateReject_Retries ==
    /\ translateReq = "pending"
    /\ translateCalls < MaxTranslateCalls
    /\ translateCalls' = translateCalls + 1
    /\ UNCHANGED <<otherPages, fetched, id, tab, data, loading, error, translating, aiGrade, grading,
                   showFeedbackForm, customFeedback, requests, fetchCalls, autogradeCalls,
                   alerts, acceptClicks, downloadClicks, exports>>

\* .catch logs; .finally clears the indicator; data is not touched
TranslateReject ==
    /\ translateReq = "pending"
    /\ translateReq' = "failed"
    /\ translating' = FALSE
    /\ UNCHANGED <<otherPages, id, tab, data, loading, error, aiGrade, grading, showFeedbackForm,
                   customFeedback, fetchReq, gradeReq, history, exports>>

\* ------------------------------------------------------------------- tabs
SetTab(v) ==
    /\ View = "Loaded"
    /\ tab # v
    /\ tab' = v
    /\ UNCHANGED <<otherPages, id, data, loading, error, translating, aiGrade, grading,
                   showFeedbackForm, customFeedback, requests, history, exports>>

\* the Answer tab of the loaded view is on screen
AnswerTabShown == View = "Loaded" /\ tab = 0

\* ---------------------------------------------------------------- grading
\* the Autograde button is rendered (no grade stored) and not disabled
AutogradeButtonEnabled == AnswerTabShown /\ ~IsDefined(aiGrade) /\ ~grading

AutogradeClick ==
    /\ AutogradeButtonEnabled
    /\ autogradeCalls < MaxAutogradeCalls
    /\ grading' = TRUE
    /\ gradeReq' = "pending"
    /\ autogradeCalls' = autogradeCalls + 1
    /\ UNCHANGED <<otherPages, fetched, id, tab, data, loading, error, translating, aiGrade,
                   showFeedbackForm, customFeedback, fetchReq, translateReq,
                   fetchCalls, translateCalls, alerts, acceptClicks, downloadClicks,
                   exports>>

\* AutogradeResolve that stores the grade on a fresh copy of the fetched
\* submission, discarding what was merged since
AutogradeResolve_ReplacesData(grade) ==
    /\ gradeReq = "pending"
    /\ gradeReq' = "ok"
    /\ aiGrade' = Some(grade)
    /\ grading' = FALSE
    /\ data' = fetched
    /\ UNCHANGED <<otherPages, id, tab, loading, error, translating, showFeedbackForm,
                   customFeedback, fetchReq, translateReq, history, exports>>

AutogradeResolve(grade) ==
    /\ gradeReq = "pending"
    /\ gradeReq' = "ok"
    /\ aiGrade' = Some(grade)
    /\ grading' = FALSE
    /\ UNCHANGED <<otherPages, id, tab, data, loading, error, translating, showFeedbackForm,
                   customFeedback, fetchReq, translateReq, history, exports>>

\* AutogradeReject without the finally block: the button stays disabled
AutogradeReject_NoFinally ==
    /\ gradeReq = "pending"
    /\ gradeReq' = "failed"
    /\ alerts' = alerts + 1
    /\ UNCHANGED <<otherPages, fetched, id, tab, data, loading, error, translating, aiGrade, grading,
                   showFeedbackForm, customFeedback, fetchReq, translateReq,
                   fetchCalls, translateCalls, autogradeCalls, acceptClicks,
                   downloadClicks, exports>>

AutogradeReject ==
    /\ gradeReq = "pending"
    /\ gradeReq' = "failed"
    /\ alerts' = alerts + 1
    /\ grading' = FALSE
    /\ UNCHANGED <<otherPages, fetched, id, tab, data, loading, error, translating, aiGrade,
                   showFeedbackForm, customFeedback, fetchReq, translateReq,
                   fetchCalls, translateCalls, autogradeCalls, acceptClicks,
                   downloadClicks, exports>>

\* ------------------------------------------------------ Braille rendering
\* BrailleRenderer once displayText is known: three spans when both bounds
\* are given, the whole text otherwise
BrailleRendererSpans(displayText, errorStart, errorEnd) ==
    IF IsDefined(errorStart) /\ IsDefined(errorEnd)
    THEN <<Slice(displayText, 0, Val(errorStart)),
           Slice(displayText, Val(errorStart), Val(errorEnd)),
           SliceFrom(displayText, Val(errorEnd))>>
    ELSE <<displayText>>

\* the "Braille Rendering" block of the Answer tab: the page passes the text
\* with alreadyBraille set, so displayText is the text itself, and
\* aiGrade?.error_start / aiGrade?.error_end as the bounds
BrailleRendering ==
    IF AnswerTabShown /\ TruthyText(FirstAnswer(Val(data)).braille_text)
    THEN BrailleRendererSpans(
             ReplaceNewlines(Val(FirstAnswer(Val(data)).braille_text)),
             IF IsDefined(aiGrade) THEN Val(aiGrade).error_start ELSE Undefined,
             IF IsDefined(aiGrade) THEN Val(aiGrade).error_end ELSE Undefined)
    ELSE <<>>

\* ------------------------------------------------------- artifact export
NotAvailable == <<"N", "/", "A">>

\* the template literal of the plain-text summary, part by part
TextContent(feedback) ==
    LET answer == FirstAnswer(Val(data))
    IN [id |-> id,
        student |-> Val(data).student,
        feedback |-> feedback,
        braille_text |-> IF TruthyText(answer.braille_text)
                         THEN Val(answer.braille_text) ELSE NotAvailable,
        urdu_text |-> answer.urdu_text,
        english_text |-> IF IsDefined(answer.english_text)
                         THEN Val(answer.english_text) ELSE "undefined"]

\* SvgCondition without the test of the correctness flag
SvgCondition_IgnoresCorrect(answer, grade) ==
    /\ TruthyText(answer.braille_text)
    /\ IsDefined(grade)
    /\ IsDefined(Val(grade).error_start)
    /\ IsDefined(Val(grade).error_end)

\* the condition under which the SVG is generated
SvgCondition(answer, grade) ==
    /\ TruthyText(answer.braille_text)
    /\ IsDefined(grade)
    /\ ~Val(grade).correct
    /\ IsDefined(Val(grade).error_start)
    /\ IsDefined(Val(grade).error_end)

\* beforeError / errorText / afterError and the offset of the underline
SvgContent(braille_text, error_start, error_end) ==
    LET brailleText == ReplaceNewlines(braille_text)
        beforeError == Slice(brailleText, 0, error_start)
    IN [beforeError |-> beforeError,
        errorText |-> Slice(brailleText, error_start, error_end),
        afterError |-> SliceFrom(brailleText, error_end),
        translate |-> 10 + Len(beforeError) * 16]

\* the part of downloadFeedback after the analysis: the files it clicks
ExportedFiles(task, feedback, grade) ==
    LET answer == FirstAnswer(Val(data))
        txt == [kind |-> "txt", task |-> task, content |-> TextContent(feedback)]
    IN IF SvgCondition(answer, grade)
       THEN <<txt, [kind |-> "svg", task |-> task,
                    content |-> SvgContent(Val(answer.braille_text),
                                           Val(Val(grade).error_start),
                                           Val(Val(grade).error_end))]>>
       ELSE <<txt>>

\* downloadFeedback that does not await the analysis: the call is issued and
\* the files are generated in the same turn
downloadFeedback_NoAwait(kind, feedback) ==
    LET task == Len(downloads) + 1
    IN /\ downloads' = Append(downloads,
              [kind |-> kind, feedback |-> feedback, grade |-> aiGrade,
               analysis |-> IF IsDefined(aiGrade) THEN "pending" ELSE "skipped"])
       /\ analyzeLog' = IF IsDefined(aiGrade)
                        THEN Append(analyzeLog,
                                 [task |-> task, feedback |-> feedback,
                                  is_correct |-> Val(aiGrade).correct,
                                  student_name |-> Val(data).student])
                        ELSE analyzeLog
       /\ artifacts' = Append(artifacts, ExportedFiles(task, feedback, aiGrade))

\* downloadFeedback that analyses the AI explanation only: custom feedback
\* is exported without the analysis call
downloadFeedback_AcceptOnly(kind, feedback) ==
    LET task == Len(downloads) + 1
    IN IF IsDefined(aiGrade) /\ kind = "accept"
       THEN /\ downloads' = Append(downloads,
                   [kind |-> kind, feedback |-> feedback, grade |-> aiGrade,
                    analysis |-> "pending"])
            /\ analyzeLog' = Append(analyzeLog,
                   [task |-> task, feedback |-> feedback,
                    is_correct |-> Val(aiGrade).correct,
                    student_name |-> Val(data).student])
            /\ artifacts' = Append(artifacts, <<>>)
       ELSE /\ downloads' = Append(downloads,
                   [kind |-> kind, feedback |-> feedback, grade |-> aiGrade,
                    analysis |-> "skipped"])
            /\ artifacts' = Append(artifacts, ExportedFiles(task, feedback, aiGrade))
            /\ UNCHANGED analyzeLog

\* downloadFeedback up to its first suspension point
downloadFeedback(kind, feedback) ==
    LET task == Len(downloads) + 1
    IN IF IsDefined(aiGrade)
       THEN /\ downloads' = Append(downloads,
                   [kind |-> kind, feedback |-> feedback, grade |-> aiGrade,
                    analysis |-> "pending"])
            /\ analyzeLog' = Append(analyzeLog,
                   [task |-> task, feedback |-> feedback,
                    is_correct |-> Val(aiGrade).correct,
                    student_name |-> Val(data).student])
            /\ artifacts' = Append(artifacts, <<>>)
       ELSE /\ downloads' = Append(downloads,
                   [kind |-> kind, feedback |-> feedback, grade |-> aiGrade,
                    analysis |-> "skipped"])
            /\ artifacts' = Append(artifacts, ExportedFiles(task, feedback, aiGrade))
            /\ UNCHANGED analyzeLog

\* AnalyzeSettle whose catch block gives the export up
AnalyzeSettle_FailureCancels(task, outcome) ==
    /\ task \in 1..Len(downloads)
    /\ downloads[task].analysis = "pending"
    /\ downloads' = [downloads EXCEPT ![task].analysis = outcome]
    /\ artifacts' = IF outcome = "failed" THEN artifacts
                    ELSE [artifacts EXCEPT ![task] =
                             ExportedFiles(task, downloads[task].feedback,
                                           downloads[task].grade)]
    /\ UNCHANGED <<otherPages, reactState, requests, history, analyzeLog>>

\* the awaited analyzeFeedback settles (resolve or reject) and
\* downloadFeedback runs to its end
AnalyzeSettle(task, outcome) ==
    /\ task \in 1..Len(downloads)
    /\ downloads[task].analysis = "pending"
    /\ downloads' = [downloads EXCEPT ![task].analysis = outcome]
    /\ artifacts' = [artifacts EXCEPT ![task] =
                        ExportedFiles(task, downloads[task].feedback, downloads[task].grade)]
    /\ UNCHANGED <<otherPages, reactState, requests, history, analyzeLog>>

\* -------------------------------------------------- graded result actions
GradedResultShown == AnswerTabShown /\ IsDefined(aiGrade)

AcceptClick ==
    /\ GradedResultShown
    /\ Len(downloads) < MaxDownloads
    /\ acceptClicks' = acceptClicks + 1
    /\ downloadFeedback("accept", Val(aiGrade).explanation)
    /\ UNCHANGED <<otherPages, fetched, reactState, requests, fetchCalls, translateCalls, autogradeCalls,
                   alerts, downloadClicks>>

\* RejectClick that also discards the stored grade
RejectClick_ClearsGrade ==
    /\ GradedResultShown
    /\ ~showFeedbackForm
    /\ showFeedbackForm' = TRUE
    /\ aiGrade' = Undefined
    /\ UNCHANGED <<otherPages, id, tab, data, loading, error, translating, grading,
                   customFeedback, requests, history, exports>>

RejectClick ==
    /\ GradedResultShown
    /\ ~showFeedbackForm
    /\ showFeedbackForm' = TRUE
    /\ UNCHANGED <<otherPages, id, tab, data, loading, error, translating, aiGrade, grading,
                   customFeedback, requests, history, exports>>

SetCustomFeedback(text) ==
    /\ GradedResultShown
    /\ showFeedbackForm
    /\ text # customFeedback
    /\ customFeedback' = text
    /\ UNCHANGED <<otherPages, id, tab, data, loading, error, translating, aiGrade, grading,
                   showFeedbackForm, requests, history, exports>>

DownloadClick ==
    /\ GradedResultShown
    /\ showFeedbackForm
    /\ Len(downloads) < MaxDownloads
    /\ downloadClicks' = downloadClicks + 1
    /\ downloadFeedback("reject", customFeedback)
    /\ UNCHANGED <<otherPages, fetched, reactState, requests, fetchCalls, translateCalls, autogradeCalls,
                   alerts, acceptClicks>>

Next ==
    \/ LoadEffect
    \/ \E d \in SampleSubmissions(id) : FetchResolve(d)
    \/ FetchReject
    \/ \E eng \in TranslationResponses : TranslateResolve(eng)
    \/ TranslateReject
    \/ \E v \in {0, 1} : SetTab(v)
    \/ AutogradeClick
    \/ \E grade \in SampleGrades : AutogradeResolve(grade)
    \/ AutogradeReject
    \/ AcceptClick
    \/ RejectClick
    \/ \E text \in FeedbackTexts : SetCustomFeedback(text)
    \/ DownloadClick
    \/ \E task \in 1..MaxDownloads, outcome \in {"ok", "failed"} : AnalyzeSettle(task, outcome)

Spec == Init /\ [][Next]_vars

\* ------------------------------------------------------------------------
\* The export scenario: the same view from the same initial state, with a
\* backend that answers every request (no failure, translation already
\* stored) and returns every Braille text and every grade.
ExportSubmissions(sid) ==
    {d \in Submissions(sid) :
        /\ d.answers[1].urdu_text = "u"
        /\ d.answers[1].english_text = Some("e")}

NextExport ==
    \/ LoadEffect
    \/ \E d \in ExportSubmissions(id) : FetchResolve(d)
    \/ AutogradeClick
    \/ \E grade \in AutogradeResults : AutogradeResolve(grade)
    \/ AcceptClick
    \/ RejectClick
    \/ \E text \in FeedbackTexts : SetCustomFeedback(text)
    \/ DownloadClick
    \/ \E task \in 1..MaxDownloads : AnalyzeSettle(task, "ok")

SpecExport == Init /\ [][NextExport]_vars

\* ========================================================================
\* AssignmentPage: lesson-pack generation with a live progress log
\* ========================================================================
MaxItems == 2            \* most diagram items on the page
MaxEvents == 2           \* most progress events delivered per generation
MaxGenerations == 2      \* clicks on Generate Lesson Pack explored

WhiteSpace == {" ", "\n"}

\* String.prototype.trim on a sequence of characters
RECURSIVE TrimStart(_)
TrimStart(s) ==
    IF s # <<>> /\ Head(s) \in WhiteSpace THEN TrimStart(Tail(s)) ELSE s

RECURSIVE TrimEnd(_)
TrimEnd(s) ==
    IF s # <<>> /\ s[Len(s)] \in WhiteSpace THEN TrimEnd(SubSeq(s, 1, Len(s) - 1)) ELSE s

Trim(s) == TrimEnd(TrimStart(s))

Files == {Undefined, Some("f")}
Prompts == {<<>>, <<" ">>, <<"p">>}

\* the statuses the backend is known to send, and one it is not
Statuses == {"starting", "processing", "diagram_ready", "scripts_ready",
             "braille_ready", "audio_ready", "finished", "queued"}
ProgressEvents == {[status |-> s, idx |-> 1, total |-> 2] : s \in Statuses}

\* what POST /api/assignments may answer as data.assignment_id
AssignmentIds == {Undefined, Some(1), Some(2)}

\* the answers explored where the progress stream is followed
SampleAssignmentIds == {Undefined, Some(1)}

\* assignmentId.toString()
NumberToString(n) == CASE n = 1 -> "1" [] n = 2 -> "2"

\* a log line: the literal part of the template and the values spliced in
mapStatusToMessage(evt) ==
    CASE evt.status = "starting" ->
           [text |-> "Starting lesson pack generation (total ", args |-> <<evt.total>>]
      [] evt.status = "processing" ->
           [text |-> "Understanding the image ", args |-> <<evt.idx, evt.total>>]
      [] evt.status = "diagram_ready" ->
           [text |-> "Writing narration scripts ", args |-> <<evt.idx, evt.total>>]
      [] evt.status = "scripts_ready" ->
           [text |-> "Converting text to braille ", args |-> <<evt.idx, evt.total>>]
      [] evt.status = "braille_ready" ->
           [text |-> "Generating audio lesson ", args |-> <<evt.idx, evt.total>>]
      [] evt.status = "audio_ready" ->
           [text |-> "Completed lesson pack ", args |-> <<evt.idx, evt.total>>]
      [] OTHER -> [text |-> evt.status, args |-> <<>>]

\* ------------------------------------------------------------ item editing
updateItem(idx, change) ==
    /\ idx \in 1..Len(items)
    /\ LET merged == IF change.field = "file"
                     THEN [items[idx] EXCEPT !.file = change.value]
                     ELSE [items[idx] EXCEPT !.prompt = change.value]
       IN /\ merged # items[idx]
          /\ items' = [items EXCEPT ![idx] = merged]
    /\ UNCHANGED <<notAssignment, assignmentLoading, logs,
                   streams, runs, httpCalls, assignmentAlerts, delivered,
                   generateClicks, packDownloads>>

ItemChanges ==
    {[field |-> "file", value |-> f] : f \in Files}
        \cup {[field |-> "prompt", value |-> p] : p \in Prompts}

addItem ==
    /\ Len(items) < MaxItems
    /\ items' = Append(items, [file |-> Undefined, prompt |-> <<>>])
    /\ UNCHANGED <<notAssignment, assignmentLoading, logs,
                   streams, runs, httpCalls, assignmentAlerts, delivered,
                   generateClicks, packDownloads>>

\* removeItem reachable from every card, the first included
removeItem_AnyCard(idx) ==
    /\ idx \in 1..Len(items)
    /\ items' = [i \in 1..(Len(items) - 1) |-> IF i < idx THEN items[i] ELSE items[i + 1]]
    /\ UNCHANGED <<notAssignment, assignmentLoading, logs,
                   streams, runs, httpCalls, assignmentAlerts, delivered,
                   generateClicks, packDownloads>>

\* the delete button is rendered on every card but the first
removeItem(idx) ==
    /\ idx \in 2..Len(items)
    /\ items' = [i \in 1..(Len(items) - 1) |-> IF i < idx THEN items[i] ELSE items[i + 1]]
    /\ UNCHANGED <<notAssignment, assignmentLoading, logs,
                   streams, runs, httpCalls, assignmentAlerts, delivered,
                   generateClicks, packDownloads>>

\* ---------------------------------------------------------- handleGenerate
\* validation that tests the prompt without trimming it
ValidationFails_NoTrim(its) ==
    \E i \in 1..Len(its) : ~IsDefined(its[i].file) \/ its[i].prompt = <<>>

\* items.some((it) => !it.file || !it.prompt.trim())
ValidationFails(its) ==
    \E i \in 1..Len(its) : ~IsDefined(its[i].file) \/ Trim(its[i].prompt) = <<>>

\* a Generate button that stays enabled while loading
GenerateClick_WhileLoading ==
    /\ generateClicks < MaxGenerations
    /\ generateClicks' = generateClicks + 1
    /\ IF ValidationFails(items)
       THEN /\ assignmentAlerts' =
                   Append(assignmentAlerts, "Please upload all images and prompts")
            /\ UNCHANGED <<assignmentLoading, logs, streams, runs, httpCalls, delivered>>
       ELSE /\ logs' = <<>>
            /\ assignmentLoading' = TRUE
            /\ streams' = Append(streams, "open")
            /\ runs' = Append(runs, [stage |-> "createAssignment",
                                     assignmentId |-> Undefined])
            /\ httpCalls' = Append(httpCalls,
                                   [op |-> "createAssignment", run |-> Len(runs) + 1,
                                    assignment_id |-> Undefined])
            /\ delivered' = <<>>
            /\ UNCHANGED assignmentAlerts
    /\ UNCHANGED <<notAssignment, items, packDownloads>>

\* the click handler up to its first await; the button is disabled while loading
GenerateClick ==
    /\ ~assignmentLoading
    /\ generateClicks < MaxGenerations
    /\ generateClicks' = generateClicks + 1
    /\ IF ValidationFails(items)
       THEN /\ assignmentAlerts' =
                   Append(assignmentAlerts, "Please upload all images and prompts")
            /\ UNCHANGED <<assignmentLoading, logs, streams, runs, httpCalls, delivered>>
       ELSE /\ logs' = <<>>
            /\ assignmentLoading' = TRUE
            /\ streams' = Append(streams, "open")
            /\ runs' = Append(runs, [stage |-> "createAssignment",
                                     assignmentId |-> Undefined])
            /\ httpCalls' = Append(httpCalls,
                                   [op |-> "createAssignment", run |-> Len(runs) + 1,
                                    assignment_id |-> Undefined])
            /\ delivered' = <<>>
            /\ UNCHANGED assignmentAlerts
    /\ UNCHANGED <<notAssignment, items, packDownloads>>

\* es.onmessage that does not single out the terminal event
StreamMessage_LogsFinished(r, evt) ==
    /\ r \in 1..Len(streams)
    /\ streams[r] = "open"
    /\ Len(delivered) < MaxEvents
    /\ delivered' = Append(delivered, evt)
    /\ logs' = Append(logs, mapStatusToMessage(evt))
    /\ UNCHANGED <<notAssignment, items, assignmentLoading,
                   streams, runs, httpCalls, assignmentAlerts, generateClicks,
                   packDownloads>>

\* es.onmessage; a closed EventSource dispatches nothing
StreamMessage(r, evt) ==
    /\ r \in 1..Len(streams)
    /\ streams[r] = "open"
    /\ Len(delivered) < MaxEvents
    /\ delivered' = Append(delivered, evt)
    /\ logs' = IF evt.status = "finished" THEN logs
               ELSE Append(logs, mapStatusToMessage(evt))
    /\ UNCHANGED <<notAssignment, items, assignmentLoading,
                   streams, runs, httpCalls, assignmentAlerts, generateClicks,
                   packDownloads>>

\* es.onerror that gives the generation up
StreamError_Aborts(r) ==
    /\ r \in 1..Len(streams)
    /\ streams[r] = "open"
    /\ streams' = [streams EXCEPT ![r] = "closed"]
    /\ assignmentLoading' = FALSE
    /\ UNCHANGED <<notAssignment, items, logs, runs,
                   httpCalls, assignmentAlerts, delivered, generateClicks,
                   packDownloads>>

\* es.onerror
StreamError(r) ==
    /\ r \in 1..Len(streams)
    /\ streams[r] = "open"
    /\ streams' = [streams EXCEPT ![r] = "closed"]
    /\ UNCHANGED <<notAssignment, items, assignmentLoading,
                   logs, runs, httpCalls, assignmentAlerts, delivered, generateClicks,
                   packDownloads>>

\* a finally block that forgets the stream
Finally_LeavesStreamOpen(r, outcome) ==
    /\ assignmentLoading' = FALSE
    /\ runs' = [runs EXCEPT ![r].stage = outcome]
    /\ UNCHANGED streams

\* finally { es.close(); setLoading(false) }
Finally(r, outcome) ==
    /\ streams' = [streams EXCEPT ![r] = "closed"]
    /\ assignmentLoading' = FALSE
    /\ runs' = [runs EXCEPT ![r].stage = outcome]

\* catch (e) { alert(...) } followed by the finally block
CatchAndFinally(r) ==
    /\ assignmentAlerts' = Append(assignmentAlerts, "Failed to generate lesson pack")
    /\ Finally(r, "failed")

\* createAssignment resolves; an answer without assignment_id makes
\* assignmentId.toString() throw inside the try block
CreateAssignmentResolve(r, assignmentId) ==
    /\ r \in 1..Len(runs)
    /\ runs[r].stage = "createAssignment"
    /\ IF IsDefined(assignmentId)
       THEN /\ runs' = [runs EXCEPT ![r].stage = "generateLessonPack",
                                    ![r].assignmentId = assignmentId]
            /\ httpCalls' = Append(httpCalls,
                                   [op |-> "generateLessonPack", run |-> r,
                                    assignment_id |->
                                        Some(NumberToString(Val(assignmentId)))])
            /\ UNCHANGED <<assignmentLoading, streams, assignmentAlerts>>
       ELSE /\ CatchAndFinally(r)
            /\ UNCHANGED httpCalls
    /\ UNCHANGED <<notAssignment, items, logs, delivered,
                   generateClicks, packDownloads>>

\* a catch block that goes on to the second request
CreateAssignmentReject_GeneratesAnyway(r) ==
    /\ r \in 1..Len(runs)
    /\ runs[r].stage = "createAssignment"
    /\ runs' = [runs EXCEPT ![r].stage = "generateLessonPack"]
    /\ httpCalls' = Append(httpCalls, [op |-> "generateLessonPack", run |-> r,
                                       assignment_id |-> Undefined])
    /\ UNCHANGED <<notAssignment, items, assignmentLoading, logs, streams,
                   assignmentAlerts, delivered, generateClicks, packDownloads>>

CreateAssignmentReject(r) ==
    /\ r \in 1..Len(runs)
    /\ runs[r].stage = "createAssignment"
    /\ CatchAndFinally(r)
    /\ UNCHANGED <<notAssignment, items, logs, httpCalls,
                   delivered, generateClicks, packDownloads>>

\* the archive arrives: it is downloaded, then the finally block runs
GenerateLessonPackResolve(r) ==
    /\ r \in 1..Len(runs)
    /\ runs[r].stage = "generateLessonPack"
    /\ packDownloads' = packDownloads + 1
    /\ Finally(r, "done")
    /\ UNCHANGED <<notAssignment, items, logs, httpCalls,
                   assignmentAlerts, delivered, generateClicks>>

GenerateLessonPackReject(r) ==
    /\ r \in 1..Len(runs)
    /\ runs[r].stage = "generateLessonPack"
    /\ CatchAndFinally(r)
    /\ UNCHANGED <<notAssignment, items, logs, httpCalls,
                   delivered, generateClicks, packDownloads>>

\* one generation page with a single diagram item: the progress stream races
\* with the two requests
NextAssignment ==
    \/ \E change \in ItemChanges : updateItem(1, change)
    \/ GenerateClick
    \/ \E r \in 1..MaxGenerations, evt \in ProgressEvents : StreamMessage(r, evt)
    \/ \E r \in 1..MaxGenerations : StreamError(r)
    \/ \E r \in 1..MaxGenerations, assignmentId \in SampleAssignmentIds :
           CreateAssignmentResolve(r, assignmentId)
    \/ \E r \in 1..MaxGenerations : CreateAssignmentReject(r)
    \/ \E r \in 1..MaxGenerations : GenerateLessonPackResolve(r)
    \/ \E r \in 1..MaxGenerations : GenerateLessonPackReject(r)

SpecAssignment == Init /\ [][NextAssignment]_vars

\* the item list is edited freely; the stream stays silent
NextItems ==
    \/ \E idx \in 1..MaxItems, change \in ItemChanges : updateItem(idx, change)
    \/ addItem
    \/ \E idx \in 1..MaxItems : removeItem(idx)
    \/ GenerateClick
    \/ \E r \in 1..MaxGenerations, assignmentId \in AssignmentIds :
           CreateAssignmentResolve(r, assignmentId)
    \/ \E r \in 1..MaxGenerations : CreateAssignmentReject(r)
    \/ \E r \in 1..MaxGenerations : GenerateLessonPackResolve(r)
    \/ \E r \in 1..MaxGenerations : GenerateLessonPackReject(r)

SpecItems == Init /\ [][NextItems]_vars

\* ========================================================================
\* Service clients: one fetch per call, the response turned into a result
\* or an Error
\* ========================================================================
MaxServiceCalls == 2     \* client calls explored

Operations == {"processBrailleImage", "translateTextToBraille", "translateUrduToEnglish",
               "checkHealth", "submitAnswer", "fetchSubmissions", "fetchSubmission",
               "autogradeSubmission"}

\* HTTP responses: a success, a client error and a server error
HttpResponses == {[status |-> st, body |-> b] : st \in {200, 404, 500}, b \in {"b"}}

\* Response.ok
Ok(response) == response.status >= 200 /\ response.status <= 299

\* new Error(message): an object whose only own data is the message, kept
\* as the parts of the template it was built from
NewError(message) == [message |-> message, status |-> Undefined]

\* the operation's statements after `await fetch(...)`
ServiceOutcome(op, response) ==
    IF ~Ok(response)
    THEN [kind |-> "threw",
          error |-> CASE op = "processBrailleImage" ->
                           NewError(<<"Failed to process image: ", response.body>>)
                      [] op = "checkHealth" -> NewError(<<"Backend health check failed">>)
                      [] OTHER -> NewError(<<response.body>>)]
    ELSE [kind |-> "returned",
          json |-> response.body,
          field |-> CASE op = "translateTextToBraille" -> "braille_text"
                      [] op = "translateUrduToEnglish" -> "english_text"
                      [] op = "submitAnswer" -> "submission_id"
                      [] OTHER -> ""]

\* a page calls an operation: the fetch is issued before the first await
CallService(op) ==
    /\ Len(serviceCalls) < MaxServiceCalls
    /\ serviceCalls' = Append(serviceCalls,
           [op |-> op, requests |-> 1, response |-> Undefined, outcome |-> Undefined])
    /\ UNCHANGED notServices

\* the response arrives and the operation runs to its end
ServiceRespond(call, response) ==
    /\ call \in 1..Len(serviceCalls)
    /\ ~IsDefined(serviceCalls[call].outcome)
    /\ serviceCalls' = [serviceCalls EXCEPT
           ![call].response = Some(response),
           ![call].outcome = Some(ServiceOutcome(serviceCalls[call].op, response))]
    /\ UNCHANGED notServices

\* fetch itself rejects (no response): the rejection passes through
ServiceNetworkError(call) ==
    /\ call \in 1..Len(serviceCalls)
    /\ ~IsDefined(serviceCalls[call].outcome)
    /\ serviceCalls' = [serviceCalls EXCEPT
           ![call].outcome = Some([kind |-> "threw", error |-> NewError(<<"Failed to fetch">>)])]
    /\ UNCHANGED notServices

NextServices ==
    \/ \E op \in Operations : CallService(op)
    \/ \E call \in 1..MaxServiceCalls, response \in HttpResponses :
           ServiceRespond(call, response)
    \/ \E call \in 1..MaxServiceCalls : ServiceNetworkError(call)

SpecServices == Init /\ [][NextServices]_vars

\* ========================================================================
\* SubmissionsPage: assignments grid, then the submissions of one assignment
\* ========================================================================
MaxAssignmentClicks == 2     \* clicks on an assignment row explored

AssignmentRow(n) == [id |-> n, title |-> "t", diagrams |-> <<>>]

\* what GET /api/assignments may return
AssignmentLists == {<<>>, <<AssignmentRow(1)>>, <<AssignmentRow(1), AssignmentRow(2)>>}

SubmissionRow(n, a) == [id |-> n, assignment_id |-> a, student |-> "s"]

\* what GET /api/submissions may return
SubmissionLists == {<<>>, <<SubmissionRow(1, 1)>>, <<SubmissionRow(1, 1), SubmissionRow(2, 2)>>}

\* the mount effect
LoadAssignmentsEffect ==
    /\ assignmentsReq = "idle"
    /\ assignmentsReq' = "pending"
    /\ fetchAssignmentsCalls' = fetchAssignmentsCalls + 1
    /\ UNCHANGED <<notSubmissions, assignments, selected, submissions, submissionsReqs>>

\* .then(setAssignments)
FetchAssignmentsResolve(list) ==
    /\ assignmentsReq = "pending"
    /\ assignmentsReq' = "ok"
    /\ assignments' = list
    /\ UNCHANGED <<notSubmissions, selected, submissions, submissionsReqs,
                   fetchAssignmentsCalls>>

\* a .catch that asks again
FetchAssignmentsReject_Retries ==
    /\ assignmentsReq = "pending"
    /\ assignmentsReq' = "failed"
    /\ fetchAssignmentsCalls' = fetchAssignmentsCalls + 1
    /\ UNCHANGED <<notSubmissions, assignments, selected, submissions, submissionsReqs>>

\* .catch(console.error)
FetchAssignmentsReject ==
    /\ assignmentsReq = "pending"
    /\ assignmentsReq' = "failed"
    /\ UNCHANGED <<notSubmissions, assignments, selected, submissions, submissionsReqs,
                   fetchAssignmentsCalls>>

\* a row of the assignments grid is clicked; the grid is rendered while
\* nothing is selected and its rows are the assignments
handleAssignmentClick(rowId) ==
    /\ selected = Undefined
    /\ Len(submissionsReqs) < MaxAssignmentClicks
    /\ \E i \in 1..Len(assignments) :
          /\ assignments[i].id = rowId
          /\ \A j \in 1..(i - 1) : assignments[j].id # rowId
          /\ selected' = Some(assignments[i])
          /\ submissionsReqs' = Append(submissionsReqs,
                 [assignment_id |-> assignments[i].id, state |-> "pending"])
    /\ UNCHANGED <<notSubmissions, assignments, submissions, assignmentsReq,
                   fetchAssignmentsCalls>>

\* .then: keep the submissions of the assignment captured by the click
FetchSubmissionsResolve(req, all) ==
    /\ req \in 1..Len(submissionsReqs)
    /\ submissionsReqs[req].state = "pending"
    /\ submissionsReqs' = [submissionsReqs EXCEPT ![req].state = "ok"]
    /\ submissions' = SelectSeq(all,
           LAMBDA s : s.assignment_id = submissionsReqs[req].assignment_id)
    /\ UNCHANGED <<notSubmissions, assignments, selected, assignmentsReq,
                   fetchAssignmentsCalls>>

FetchSubmissionsReject(req) ==
    /\ req \in 1..Len(submissionsReqs)
    /\ submissionsReqs[req].state = "pending"
    /\ submissionsReqs' = [submissionsReqs EXCEPT ![req].state = "failed"]
    /\ UNCHANGED <<notSubmissions, assignments, selected, submissions, assignmentsReq,
                   fetchAssignmentsCalls>>

\* "Back to assignments"
BackClick ==
    /\ selected # Undefined
    /\ selected' = Undefined
    /\ submissions' = <<>>
    /\ UNCHANGED <<notSubmissions, assignments, assignmentsReq, submissionsReqs,
                   fetchAssignmentsCalls>>

NextSubmissions ==
    \/ LoadAssignmentsEffect
    \/ \E list \in AssignmentLists : FetchAssignmentsResolve(list)
    \/ FetchAssignmentsReject
    \/ \E rowId \in {1, 2} : handleAssignmentClick(rowId)
    \/ \E req \in 1..MaxAssignmentClicks, all \in SubmissionLists :
           FetchSubmissionsResolve(req, all)
    \/ \E req \in 1..MaxAssignmentClicks : FetchSubmissionsReject(req)
    \/ BackClick

SpecSubmissions == Init /\ [][NextSubmissions]_vars

\* ========================================================================
\* Transliteration to Braille glyphs, Braille detection and the renderer's
\* choice between them.  A string is the sequence of its UTF-16 code units.
\* ========================================================================
MaxTextLen == 2          \* longest text over the full alphabet
MaxDetectLen == 10       \* longest text over the two-letter detection alphabet

\* the glyphs of a..z in brailleMap, in alphabetical order
BrailleGlyphs ==
    <<
      10241, 10243, 10249, 10265, 10257, 10251, 10267, 10259, 10250,
      10266, 10245, 10247, 10253, 10269, 10261, 10255, 10271, 10263,
      10254, 10270, 10277, 10279, 10298, 10285, 10301, 10293
    >>

\* brailleMap: a..z and the space (which maps to itself)
brailleMap == [c \in (97..122) \cup {32} |-> IF c = 32 THEN 32 ELSE BrailleGlyphs[c - 96]]

\* the glyph used for every character without an entry
Placeholder == 9072

\* the code units explored: a, z, A, Z, space, a digit, the first and last
\* code unit of the Braille block and their outer neighbours, a glyph of the
\* map, the placeholder, capital I with dot above and the two halves of an
\* astral character
CodeUnits == {97, 122, 65, 90, 32, 49, 10240, 10495, 10239, 10496, 10241,
              Placeholder, 304, 55357, 56832}

\* the two code units of the detection texts: a Braille glyph and a letter
DetectUnits == {10241, 97}

RECURSIVE StringsOver(_, _)
StringsOver(alphabet, n) ==
    IF n = 0 THEN {<<>>}
    ELSE LET shorter == StringsOver(alphabet, n - 1)
         IN shorter \cup {Append(t, c) : t \in {u \in shorter : Len(u) = n - 1},
                                          c \in alphabet}

BrailleInputs == StringsOver(CodeUnits, MaxTextLen) \cup StringsOver(DetectUnits, MaxDetectLen)

\* String.prototype.toLowerCase on one code unit of CodeUnits: A..Z shift to
\* a..z, capital I with dot above becomes i followed by a combining dot, and
\* the rest is unchanged
LowerCaseUnit(c) ==
    IF c >= 65 /\ c <= 90 THEN <<c + 32>>
    ELSE IF c = 304 THEN <<105, 775>>
    ELSE <<c>>

RECURSIVE toLowerCase(_)
toLowerCase(str) ==
    IF str = <<>> THEN <<>> ELSE LowerCaseUnit(Head(str)) \o toLowerCase(Tail(str))

\* text.toLowerCase().split('').map((ch) => brailleMap[ch] ?? placeholder).join('')
toBraille(str) ==
    LET lower == toLowerCase(str)
    IN [i \in 1..Len(lower) |->
           IF lower[i] \in DOMAIN brailleMap THEN brailleMap[lower[i]] ELSE Placeholder]

IsHighSurrogate(c) == c >= 55296 /\ c <= 56319
IsLowSurrogate(c) == c >= 56320 /\ c <= 57343

\* the strings `for (const ch of str)` yields: one per code point, a
\* surrogate pair taken together
RECURSIVE CodePoints(_)
CodePoints(str) ==
    IF str = <<>> THEN <<>>
    ELSE IF Len(str) >= 2 /\ IsHighSurrogate(str[1]) /\ IsLowSurrogate(str[2])
         THEN <<SubSeq(str, 1, 2)>> \o CodePoints(SubSeq(str, 3, Len(str)))
         ELSE <<SubSeq(str, 1, 1)>> \o CodePoints(Tail(str))

\* the detector with a threshold of at least one half
isBraillePattern_AtLeastHalf(str) ==
    IF str = <<>> THEN FALSE
    ELSE LET chars == CodePoints(str)
             brailleCount == Cardinality({k \in 1..Len(chars) :
                                 chars[k][1] >= 10240 /\ chars[k][1] <= 10495})
         IN 2 * brailleCount >= Len(str)

\* brailleCount / str.length > 0.5
isBraillePattern(str) ==
    IF str = <<>> THEN FALSE
    ELSE LET chars == CodePoints(str)
             brailleCount == Cardinality({k \in 1..Len(chars) :
                                 chars[k][1] >= 10240 /\ chars[k][1] <= 10495})
         IN 2 * brailleCount > Len(str)

\* BrailleRenderer's displayText
DisplayText(str, alreadyBraille) ==
    IF alreadyBraille \/ isBraillePattern(str) THEN str ELSE toBraille(str)

Transliterate ==
    /\ transliterated = Undefined
    /\ transliterated' = Some(toBraille(brailleInput))
    /\ UNCHANGED <<notBraille, brailleInput, detected, rendered, fromToBraille>>

Detect ==
    /\ detected = Undefined
    /\ detected' = Some(isBraillePattern(brailleInput))
    /\ UNCHANGED <<notBraille, brailleInput, transliterated, rendered, fromToBraille>>

\* <BrailleRenderer text={brailleInput} alreadyBraille={alreadyBraille} />
Render(alreadyBraille) ==
    /\ rendered = Undefined
    /\ rendered' = Some([alreadyBraille |-> alreadyBraille,
                         displayText |-> DisplayText(brailleInput, alreadyBraille)])
    /\ UNCHANGED <<notBraille, brailleInput, transliterated, detected, fromToBraille>>

\* the transliteration becomes the text handed to the utilities next
Reuse ==
    /\ transliterated # Undefined
    /\ ~fromToBraille
    /\ brailleInput' = Val(transliterated)
    /\ fromToBraille' = TRUE
    /\ transliterated' = Undefined
    /\ detected' = Undefined
    /\ rendered' = Undefined
    /\ UNCHANGED notBraille

InitBraille == PagesInit /\ brailleInput \in BrailleInputs /\ RendererIdle

NextBraille ==
    \/ Transliterate
    \/ Detect
    \/ \E alreadyBraille \in BOOLEAN : Render(alreadyBraille)
    \/ Reuse

SpecBraille == InitBraille /\ [][NextBraille]_vars

\* ========================================================================
\* SubmissionDetail under a changing route parameter (/submissions/:id)
\*
\* The component stays mounted when only :id changes, so every useState keeps
\* its value; the load effect, keyed on [id], runs again.

MaxRouteChanges == 2

RouteIds == {"7", "8"}

\* GET /api/submissions/{sid}: a stored submission that needs no translation
RouteSubmissions(sid) ==
    {d \in Submissions(sid) :
        /\ d.answers[1].urdu_text = "u"
        /\ d.answers[1].english_text = Some("e")
        /\ d.answers[1].braille_text = Some(SampleText)}

\* POST /api/submissions/{sid}/autograde: the explanation names the submission
\* that was graded
RouteGrades(sid) ==
    {[correct |-> c, explanation |-> sid, error_start |-> Undefined,
      error_end |-> Undefined] : c \in BOOLEAN}

\* useParams() yields another id: the [id] effect runs again, nothing else is
\* reset, and the request of the previous run is not cancelled
RouteChange(newId) ==
    /\ fetchReq # "idle"
    /\ newId # id
    /\ routeChanges < MaxRouteChanges
    /\ routeChanges' = routeChanges + 1
    /\ id' = newId
    /\ loading' = TRUE
    /\ fetchReq' = "pending"
    /\ fetchCalls' = fetchCalls + 1
    /\ staleFetches' = IF fetchReq = "pending"
                       THEN Append(staleFetches, [id |-> id, state |-> "pending"])
                       ELSE staleFetches
    /\ gradeTarget' = IF gradeReq = "pending" /\ ~IsDefined(gradeTarget)
                      THEN Some(id)
                      ELSE gradeTarget
    /\ UNCHANGED <<notDetail, fetched, tab, data, error, translating, aiGrade, grading,
                   showFeedbackForm, customFeedback, translateReq, gradeReq,
                   translateCalls, autogradeCalls, alerts, acceptClicks,
                   downloadClicks, exports>>

\* .then and .finally of a fetchSubmission issued for an earlier id
StaleFetchResolve(k, d) ==
    /\ staleFetches[k].state = "pending"
    /\ staleFetches' = [staleFetches EXCEPT ![k].state = "ok"]
    /\ data' = Some(d)
    /\ fetched' = Some(d)
    /\ loading' = FALSE
    /\ IF TranslationNeeded(Some(d))
       THEN /\ translating' = TRUE
            /\ translateReq' = "pending"
            /\ translateCalls' = translateCalls + 1
       ELSE UNCHANGED <<translating, translateReq, translateCalls>>
    /\ UNCHANGED <<notDetail, gradeTarget, routeChanges, id, tab, error, aiGrade, grading,
                   showFeedbackForm, customFeedback, fetchReq, gradeReq, fetchCalls,
                   autogradeCalls, alerts, acceptClicks, downloadClicks, exports>>

\* .catch and .finally of a fetchSubmission issued for an earlier id
StaleFetchReject(k) ==
    /\ staleFetches[k].state = "pending"
    /\ staleFetches' = [staleFetches EXCEPT ![k].state = "failed"]
    /\ error' = Some("Failed to load submission")
    /\ loading' = FALSE
    /\ UNCHANGED <<notDetail, gradeTarget, routeChanges, id, tab, data, translating, aiGrade,
                   grading, showFeedbackForm, customFeedback, fetchReq, translateReq,
                   gradeReq, history, exports>>

\* the autograde response when the route has not changed since the click
CurrentAutogradeResolve ==
    /\ ~IsDefined(gradeTarget)
    /\ \E grade \in RouteGrades(id) : AutogradeResolve(grade)

\* the autograde response for a click made under an earlier id
StaleAutogradeResolve(grade) ==
    /\ IsDefined(gradeTarget)
    /\ gradeReq = "pending"
    /\ gradeReq' = "ok"
    /\ aiGrade' = Some(grade)
    /\ grading' = FALSE
    /\ gradeTarget' = Undefined
    /\ UNCHANGED <<notDetail, staleFetches, routeChanges, id, tab, data, loading, error,
                   translating, showFeedbackForm, customFeedback, fetchReq,
                   translateReq, history, exports>>

NextRoute ==
    \/ LoadEffect
    \/ \E d \in RouteSubmissions(id) : FetchResolve(d)
    \/ FetchReject
    \/ \E newId \in RouteIds : RouteChange(newId)
    \/ \E k \in 1..Len(staleFetches) :
           \E d \in RouteSubmissions(staleFetches[k].id) : StaleFetchResolve(k, d)
    \/ \E k \in 1..Len(staleFetches) : StaleFetchReject(k)
    \/ AutogradeClick
    \/ CurrentAutogradeResolve
    \/ /\ IsDefined(gradeTarget)
       /\ \E grade \in RouteGrades(Val(gradeTarget)) : StaleAutogradeResolve(grade)
    \/ RejectClick
    \/ \E text \in FeedbackTexts : SetCustomFeedback(text)

SpecRoute == Init /\ [][NextRoute]_vars

\* ========================================================================
\* FeedbackComposer (components/FeedbackComposer.tsx)
\*
\* Texts are sequences of UTF-16 code units, as in toBraille.  Each run of the
\* [feedback, lang] effect that reaches translateTextToBraille is one entry of
\* previewReqs; no run is cancelled when a later one starts.

MaxPreviewRequests == 2
MaxSvgExports == 1

\* the code units String.prototype.trim removes, among those explored
WhiteSpaceUnits == {32, 10}

\* !str.trim()
BlankText(str) == \A i \in DOMAIN str : str[i] \in WhiteSpaceUnits

\* what the teacher may type: nothing, a space, one letter, another letter
ComposerTexts == {<<>>, <<32>>, <<97>>, <<98>>}

Langs == {"urdu", "english"}

\* braille_text of POST /api/text-to-braille: some non-empty Braille string
BrailleResponses == {<<10241>>, <<10243>>}

\* the effect of lines 28-43 run for the pair (str, l)
fetchBraille(str, l) ==
    IF BlankText(str)
    THEN /\ braillePreview' = <<>>
         /\ UNCHANGED previewReqs
    ELSE /\ Len(previewReqs) < MaxPreviewRequests
         /\ previewReqs' = Append(previewReqs,
                [text |-> str, lang |-> l, state |-> "pending", result |-> Undefined])
         /\ UNCHANGED braillePreview

\* onChange of the text field
SetFeedback(str) ==
    /\ str # composerFeedback
    /\ composerFeedback' = str
    /\ fetchBraille(str, lang)
    /\ UNCHANGED <<notComposer, lang, svgExports>>

\* onChange of the language radio group
SetLang(l) ==
    /\ l # lang
    /\ lang' = l
    /\ fetchBraille(composerFeedback, l)
    /\ UNCHANGED <<notComposer, composerFeedback, svgExports>>

\* translateTextToBraille of run k resolves: setBraillePreview(br)
PreviewResolve(k, br) ==
    /\ previewReqs[k].state = "pending"
    /\ previewReqs' = [previewReqs EXCEPT ![k].state = "ok", ![k].result = Some(br)]
    /\ braillePreview' = br
    /\ UNCHANGED <<notComposer, composerFeedback, lang, svgExports>>

\* translateTextToBraille of run k rejects: setBraillePreview('')
PreviewReject(k) ==
    /\ previewReqs[k].state = "pending"
    /\ previewReqs' = [previewReqs EXCEPT ![k].state = "failed"]
    /\ braillePreview' = <<>>
    /\ UNCHANGED <<notComposer, composerFeedback, lang, svgExports>>

\* Export SVG, disabled while the feedback is blank
handleExportSvg ==
    /\ ~BlankText(composerFeedback)
    /\ Len(svgExports) < MaxSvgExports
    /\ svgExports' = Append(svgExports,
            IF braillePreview # <<>> THEN braillePreview ELSE toBraille(composerFeedback))
    /\ UNCHANGED <<notComposer, composerFeedback, lang, braillePreview, previewReqs>>

NextComposer ==
    \/ \E str \in ComposerTexts : SetFeedback(str)
    \/ \E l \in Langs : SetLang(l)
    \/ \E k \in 1..Len(previewReqs) : \E br \in BrailleResponses : PreviewResolve(k, br)
    \/ \E k \in 1..Len(previewReqs) : PreviewReject(k)
    \/ handleExportSvg

SpecComposer == Init /\ [][NextComposer]_vars

\* ========================================================================
\* StudentsPage (pages/Students.tsx)

MaxStudents == 3

\* StudentProfile rows GET /api/students may return
StudentProfiles ==
    {[id |-> i, name |-> n, strengths |-> <<"s">>, challenges |-> <<>>] :
        i \in 1..MaxStudents, n \in {"a", "b"}}

\* the lists fetchStudents may resolve to: rows with distinct ids, any order
RECURSIVE StudentListsOfLen(_)
StudentListsOfLen(n) ==
    IF n = 0 THEN {<<>>}
    ELSE {Append(l, p) : l \in StudentListsOfLen(n - 1), p \in StudentProfiles}

StudentLists ==
    {l \in UNION {StudentListsOfLen(n) : n \in 0..MaxStudents} :
        \A i, j \in 1..Len(l) : l[i].id = l[j].id => i = j}

\* the mount effect
LoadStudentsEffect ==
    /\ studentsReq = "idle"
    /\ studentsReq' = "pending"
    /\ UNCHANGED <<notStudents, students, selectedStudent>>

\* FetchStudentsResolve that selects the first row but never stores the list
FetchStudentsResolve_KeepsList(list) ==
    /\ studentsReq = "pending"
    /\ studentsReq' = "ok"
    /\ selectedStudent' = IF Len(list) > 0 THEN Some(list[1]) ELSE selectedStudent
    /\ UNCHANGED <<notStudents, students>>

\* .then: setStudents(data); if (data.length > 0) setSelected(data[0])
FetchStudentsResolve(list) ==
    /\ studentsReq = "pending"
    /\ studentsReq' = "ok"
    /\ students' = list
    /\ selectedStudent' = IF Len(list) > 0 THEN Some(list[1]) ELSE selectedStudent
    /\ UNCHANGED notStudents

\* .catch: console.error only
FetchStudentsReject ==
    /\ studentsReq = "pending"
    /\ studentsReq' = "failed"
    /\ UNCHANGED <<notStudents, students, selectedStudent>>

\* onClick of the i-th ListItemButton: setSelected(s)
SelectStudent(i) ==
    /\ i \in 1..Len(students)
    /\ selectedStudent' = Some(students[i])
    /\ UNCHANGED <<notStudents, students, studentsReq>>

NextStudents ==
    \/ LoadStudentsEffect
    \/ \E list \in StudentLists : FetchStudentsResolve(list)
    \/ FetchStudentsReject
    \/ \E i \in 1..Len(students) : SelectStudent(i)

SpecStudents == Init /\ [][NextStudents]_vars

\* ========================================================================
\* Properties
\* ========================================================================
Tasks == 1..Len(downloads)
Settled(t) == downloads[t].analysis # "pending"
SvgFiles(t) == {i \in 1..Len(artifacts[t]) : artifacts[t][i].kind = "svg"}
TxtFiles(t) == {i \in 1..Len(artifacts[t]) : artifacts[t][i].kind = "txt"}
Spans(c) == c.beforeError \o c.errorText \o c.afterError
CurrentBraille == FirstAnswer(Val(data)).braille_text

\* C1: when the fetched first answer has a non-empty urdu_text and no
\* english_text, exactly one translateUrduToEnglish call is issued over the
\* life of the view, whatever the translation responses are.
C1_ExactlyOneTranslationCall ==
    (/\ IsDefined(fetched)
     /\ FirstAnswer(Val(fetched)).urdu_text # ""
     /\ ~IsDefined(FirstAnswer(Val(fetched)).english_text))
    => translateCalls = 1

\* C2: every Accept issues analyzeFeedback with the explanation, the
\* correctness flag and the student name, and none of its files is generated
\* while that call is pending.
C2_AcceptAnalysesBeforeExport ==
    \A t \in Tasks :
        downloads[t].kind = "accept" =>
            /\ \E i \in 1..Len(analyzeLog) :
                  analyzeLog[i] = [task |-> t,
                                   feedback |-> Val(aiGrade).explanation,
                                   is_correct |-> Val(aiGrade).correct,
                                   student_name |-> Val(data).student]
            /\ (~Settled(t) => artifacts[t] = <<>>)
            /\ (Settled(t) => artifacts[t] # <<>>)

C2_Witness ==
    \E t \in Tasks :
        downloads[t].kind = "accept" /\ Settled(t) /\ artifacts[t] # <<>>

C4_SpansPartitionAtBounds ==
    \A t \in Tasks : \A i \in SvgFiles(t) :
        LET c == artifacts[t][i].content
            grade == Val(downloads[t].grade)
        IN /\ Spans(c) = Val(CurrentBraille)
           /\ Len(c.beforeError) = Val(grade.error_start)
           /\ Len(c.beforeError) + Len(c.errorText) = Val(grade.error_end)

\* C5: an invocation of downloadFeedback exports an SVG iff the Braille text
\* is non-empty, the stored grade is incorrect and both bounds are present;
\* it always exports exactly one text file and nothing else.
C5_SvgIffCondition ==
    \A t \in Tasks :
        Settled(t) =>
            LET wanted == /\ IsDefined(CurrentBraille)
                          /\ Len(Val(CurrentBraille)) > 0
                          /\ IsDefined(aiGrade)
                          /\ Val(aiGrade).correct = FALSE
                          /\ Val(aiGrade).error_start # Undefined
                          /\ Val(aiGrade).error_end # Undefined
            IN /\ Cardinality(TxtFiles(t)) = 1
               /\ Cardinality(SvgFiles(t)) = (IF wanted THEN 1 ELSE 0)
               /\ Len(artifacts[t]) = (IF wanted THEN 2 ELSE 1)

C5_Witness ==
    \E t \in Tasks : Settled(t) /\ SvgFiles(t) # {}

\* C6: bounds that violate error_start <= error_end <= length are clamped or
\* ignored: neither the rendering nor an exported SVG duplicates or drops a
\* character of the Braille text across its spans.
C6_BoundsClampedOrIgnored ==
    /\ \A t \in Tasks : \A i \in SvgFiles(t) :
          Spans(artifacts[t][i].content) = ReplaceNewlines(Val(CurrentBraille))
    /\ Len(BrailleRendering) = 3 =>
          BrailleRendering[1] \o BrailleRendering[2] \o BrailleRendering[3]
              = ReplaceNewlines(Val(CurrentBraille))

\* C7: after a failed fetchSubmission the view is in Error (loading false,
\* message set, data null) and no fetch, translation or autograde request has
\* been issued beyond the one fetch.
C7_FailedFetchIsTerminal ==
    fetchReq = "failed" =>
        /\ View = "Error"
        /\ loading = FALSE
        /\ error = Some("Failed to load submission")
        /\ data = Undefined
        /\ fetchCalls = 1
        /\ translateCalls = 0 /\ translateReq = "idle"
        /\ autogradeCalls = 0 /\ gradeReq = "idle"
        /\ downloads = <<>>

C7_Witness == fetchReq = "failed" /\ View = "Error"

\* C8: the Autograde click enters Grading; success stores the result and the
\* view is Graded; failure returns to Ungraded with an alert and the button
\* enabled again; the grading flag is true exactly while the request is pending.
C8_GradingTransitions ==
    [][/\ (grading' <=> gradeReq' = "pending")
       /\ (gradeReq # "pending" /\ gradeReq' = "pending") =>
              /\ AutogradeButtonEnabled
              /\ grading' /\ ~IsDefined(aiGrade')
              /\ autogradeCalls' = autogradeCalls + 1
       /\ (gradeReq = "pending" /\ gradeReq' = "ok") =>
              /\ IsDefined(aiGrade') /\ Val(aiGrade') \in AutogradeResults
              /\ ~grading'
              /\ alerts' = alerts
       /\ (gradeReq = "pending" /\ gradeReq' = "failed") =>
              /\ ~IsDefined(aiGrade')
              /\ ~grading'
              /\ alerts' = alerts + 1
              /\ (AnswerTabShown' => AutogradeButtonEnabled')
       /\ (gradeReq' # gradeReq) => (gradeReq = "pending" \/ gradeReq' = "pending")
      ]_vars

C8_Witness ==
    gradeReq = "failed" /\ ~grading /\ ~IsDefined(aiGrade) /\ alerts = 1

\* C9 as stated: a graded result is accepted or rejected, never both, and
\* it is accepted at most once.
C9_AcceptedXorRejected ==
    /\ acceptClicks <= 1
    /\ ~(acceptClicks >= 1 /\ (showFeedbackForm \/ downloadClicks >= 1))

Phase ==
    IF IsDefined(aiGrade) THEN "Graded"
    ELSE IF grading THEN "Grading"
    ELSE "Ungraded"

\* C9 amended: the grading sub-machine moves only Ungraded -> Grading,
\* Grading -> Graded and Grading -> Ungraded, and Graded is final with the
\* grade kept; Accept, Reject and Download happen only in Graded and leave it
\* Graded (no Accepted or Rejected state is kept, so they may be repeated and
\* mixed).
C9_GradedIsFinal ==
    [][/\ \/ Phase' = Phase
          \/ Phase = "Ungraded" /\ Phase' = "Grading"
          \/ Phase = "Grading" /\ Phase' \in {"Graded", "Ungraded"}
       /\ (Phase = "Graded" => aiGrade' = aiGrade)
       /\ (\/ acceptClicks' # acceptClicks
           \/ downloadClicks' # downloadClicks
           \/ showFeedbackForm' # showFeedbackForm
           \/ customFeedback' # customFeedback)
              => (Phase = "Graded" /\ Phase' = "Graded")
      ]_vars

C9_Witness ==
    acceptClicks >= 1 /\ downloadClicks >= 1 /\ showFeedbackForm /\ Phase = "Graded"

\* C10: a failed fallback translation leaves the data as it was (english_text
\* absent after the first request), clears the indicator and leaves the view
\* Loaded with Autograde available; a translation call is issued only when
\* the submission arrives or a response has been merged, never by a failure.
C10_TranslationFailureIsQuiet ==
    /\ [](translateReq = "failed" =>
            /\ ~translating
            /\ View = "Loaded"
            /\ (translateCalls = 1 =>
                    ~IsDefined(FirstAnswer(Val(data)).english_text))
            /\ (tab = 0 /\ Phase = "Ungraded" /\ autogradeCalls < MaxAutogradeCalls
                    => ENABLED AutogradeClick))
    /\ [][/\ (translateReq = "pending" /\ translateReq' = "failed") =>
                 /\ data' = data
                 /\ translateCalls' = translateCalls
          /\ (translateCalls' # translateCalls) =>
                 \/ fetchReq = "pending" /\ fetchReq' = "ok"
                 \/ IsDefined(FirstAnswer(Val(data')).english_text)
          /\ (translateReq = "failed") =>
                 (translateReq' = "failed" /\ translateCalls' = translateCalls)
         ]_vars

C10_Witness ==
    /\ translateReq = "failed"
    /\ ~IsDefined(FirstAnswer(Val(data)).english_text)
    /\ grading

\* C11: a translation that succeeds changes nothing of the in-memory
\* submission but the english_text of the first answer (urdu_text,
\* braille_text, errors, file_path, the other answers, the student and the
\* assignment stay as fetched), and it issues no fetchSubmission request.
WithoutEnglish(d) == [d EXCEPT !.answers[1].english_text = Undefined]

C11_MergeChangesOnlyEnglishText ==
    /\ [](IsDefined(data) => WithoutEnglish(Val(data)) = WithoutEnglish(Val(fetched)))
    /\ [][(translateReq = "pending" /\ translateReq' # "failed"
              /\ <<data, translateReq, translateCalls>>' # <<data, translateReq, translateCalls>>)
           => /\ IsDefined(data')
              /\ WithoutEnglish(Val(data')) = WithoutEnglish(Val(data))
              /\ IsDefined(FirstAnswer(Val(data')).english_text)
              /\ fetchCalls' = fetchCalls
              /\ fetchReq' = fetchReq]_vars

\* a translation was merged into a fetched answer that holds a Braille text
C11_Witness ==
    /\ translateReq = "ok"
    /\ IsDefined(data)
    /\ Val(data) # Val(fetched)
    /\ FirstAnswer(Val(data)).english_text = Some("e")
    /\ TruthyText(FirstAnswer(Val(data)).braille_text)
    /\ fetchCalls = 1

\* ---------------------------------------------------------- AssignmentPage
Finished(r) == runs[r].stage \in {"done", "failed"}
InFlight(r) == ~Finished(r)
AllFinished == \A r \in 1..Len(runs) : Finished(r)

\* C12: the progress stream opened by handleGenerate is closed when the HTTP
\* work settles, on success and on failure of either request: a finished run
\* has no open stream, and while no run is in flight no line is appended to
\* the log.
C12_StreamClosedWhenRequestsSettle ==
    /\ [](/\ Len(streams) = Len(runs)
          /\ \A r \in 1..Len(runs) : Finished(r) => streams[r] = "closed")
    /\ [][(AllFinished /\ runs' = runs) => logs' = logs]_vars

\* one generation failed and a later one succeeded after logging progress
C12_Witness ==
    /\ Len(runs) = 2
    /\ runs[1].stage = "failed"
    /\ runs[2].stage = "done"
    /\ logs # <<>>
    /\ streams = <<"closed", "closed">>

\* C13: within one generation the log is append-only and ordered: it holds
\* one line per delivered event that is not 'finished', in arrival order (a
\* template line for the six known statuses, the status itself otherwise),
\* and a step either leaves it alone, appends one line, or starts a new
\* generation.
Logged == SelectSeq(delivered, LAMBDA evt : evt.status # "finished")

TemplateStatuses == {"starting", "processing", "diagram_ready", "scripts_ready",
                     "braille_ready", "audio_ready"}

LineFor(evt, line) ==
    IF evt.status \in TemplateStatuses
    THEN /\ line.text # evt.status
         /\ line.args = IF evt.status = "starting" THEN <<evt.total>>
                        ELSE <<evt.idx, evt.total>>
         /\ \A other \in ProgressEvents :
                mapStatusToMessage(other).text = line.text => other.status = evt.status
    ELSE line = [text |-> evt.status, args |-> <<>>]

C13_LogAppendOnlyOrdered ==
    /\ [](/\ Len(logs) = Len(Logged)
          /\ \A i \in 1..Len(logs) : LineFor(Logged[i], logs[i]))
    /\ [][\/ logs' = logs
          \/ /\ Len(logs') = Len(logs) + 1
             /\ SubSeq(logs', 1, Len(logs)) = logs
             /\ Len(delivered') = Len(delivered) + 1
             /\ delivered'[Len(delivered')].status # "finished"
          \/ /\ logs' = <<>>
             /\ Len(runs') = Len(runs) + 1]_vars

\* a template line, then a terminal event, then nothing more
C13_Witness ==
    /\ Len(delivered) = 2
    /\ delivered[1].status = "processing"
    /\ delivered[2].status = "finished"
    /\ Len(logs) = 1
    /\ Len(runs) = 2

\* C14: a transport error on the stream closes it and does nothing else: no
\* log line, no alert, the run stays where it was with its request pending
\* and able to settle, and loading is true for as long as a run is in flight.
C14_StreamErrorDoesNotAbort ==
    /\ [](\A r \in 1..Len(runs) :
              InFlight(r) =>
                  /\ assignmentLoading
                  /\ runs[r].stage = "createAssignment" =>
                         /\ ENABLED CreateAssignmentResolve(r, Some(1))
                         /\ ENABLED CreateAssignmentReject(r)
                  /\ runs[r].stage = "generateLessonPack" =>
                         /\ ENABLED GenerateLessonPackResolve(r)
                         /\ ENABLED GenerateLessonPackReject(r))
    /\ [][\A r \in 1..Len(runs) :
              (InFlight(r) /\ streams[r] = "open" /\ streams'[r] = "closed"
                  /\ runs'[r] = runs[r])
              => UNCHANGED <<logs, runs, assignmentLoading, httpCalls,
                             assignmentAlerts, packDownloads>>]_vars

\* the stream failed during createAssignment and the generation went on to
\* its second request
C14_Witness ==
    /\ Len(runs) = 1
    /\ streams[1] = "closed"
    /\ runs[1].stage = "generateLessonPack"
    /\ assignmentLoading

\* C15: a click on Generate while some item has no file or a prompt of
\* nothing but white space raises the validation alert and does nothing
\* else: no stream, no createAssignment or generateLessonPack call, and
\* logs, loading and items stay as they were.
BlankPrompt(p) == \A k \in 1..Len(p) : p[k] \in WhiteSpace
ItemsInvalid == \E i \in 1..Len(items) : items[i].file = Undefined \/ BlankPrompt(items[i].prompt)

C15_InvalidItemsBlockGeneration ==
    [][(generateClicks' # generateClicks /\ ItemsInvalid)
       => /\ assignmentAlerts' =
                 Append(assignmentAlerts, "Please upload all images and prompts")
          /\ UNCHANGED <<streams, runs, httpCalls, logs, assignmentLoading, items,
                         delivered, packDownloads>>]_vars

\* the only click so far was refused for a white-space prompt on an item
\* that has its file
C15_Witness ==
    /\ generateClicks = 1
    /\ assignmentAlerts = <<"Please upload all images and prompts">>
    /\ \A i \in 1..Len(items) : IsDefined(items[i].file)
    /\ \E i \in 1..Len(items) : items[i].prompt = <<" ">>
    /\ streams = <<>>
    /\ httpCalls = <<>>
    /\ ~assignmentLoading

\* ----------------------------------------------------------- service clients
\* C16: every client operation issues one HTTP request per call; when the
\* response has a non-success status the call fails with a failure that
\* carries that status and the response body, otherwise it returns the
\* parsed body.  This is said of every operation.
CarriesStatus(err, response) == err.status = Some(response.status)
CarriesBody(err, response) ==
    \E k \in 1..Len(err.message) : err.message[k] = response.body

C16_FailureCarriesStatusAndBody ==
    \A call \in 1..Len(serviceCalls) :
        LET c == serviceCalls[call]
        IN /\ c.requests = 1
           /\ (IsDefined(c.outcome) /\ IsDefined(c.response)) =>
                 IF Ok(Val(c.response))
                 THEN Val(c.outcome).kind = "returned"
                 ELSE /\ Val(c.outcome).kind = "threw"
                      /\ CarriesStatus(Val(c.outcome).error, Val(c.response))
                      /\ CarriesBody(Val(c.outcome).error, Val(c.response))

\* ---------------------------------------------------------- SubmissionsPage
\* C17: once fetchAssignments has failed the assignments list is empty,
\* nothing is selected, no submissions are held or asked for, and the
\* request is not issued again.
C17_FailedAssignmentsFetchIsQuiet ==
    /\ [](assignmentsReq = "failed" =>
              /\ assignments = <<>>
              /\ selected = Undefined
              /\ submissions = <<>>
              /\ submissionsReqs = <<>>
              /\ fetchAssignmentsCalls = 1
              /\ ~ENABLED LoadAssignmentsEffect)
    /\ [][assignmentsReq = "failed" => UNCHANGED submissionsVars]_vars

C17_Witness ==
    /\ assignmentsReq = "failed"
    /\ fetchAssignmentsCalls = 1

\* ------------------------------------------------------- Braille utilities
InBrailleBlock(c) == c >= 10240 /\ c <= 10495
BrailleUnits(str) == Cardinality({k \in 1..Len(str) : InBrailleBlock(str[k])})

\* the glyph the transliteration contract gives one input character
GlyphOf(c) ==
    IF c >= 65 /\ c <= 90 THEN brailleMap[c + 32]
    ELSE IF (c >= 97 /\ c <= 122) \/ c = 32 THEN brailleMap[c]
    ELSE Placeholder

\* C18: toBraille gives one glyph per input character: the output is as long
\* as the input, position i holds the glyph of the lower-cased letter (or
\* the space) at input position i, and the placeholder for any other
\* character; the empty string gives the empty string.
C18_OneGlyphPerCharacter ==
    transliterated # Undefined =>
        LET out == Val(transliterated)
        IN /\ Len(out) = Len(brailleInput)
           /\ \A i \in 1..Len(out) : out[i] = GlyphOf(brailleInput[i])

\* C19: isBraillePattern answers true exactly when strictly more than half
\* of the characters (UTF-16 code units, as str.length counts them) are in
\* 0x2800..0x28FF: six of ten give true, five of ten give false, the empty
\* string gives false.
C19_StrictMajorityIsBraille ==
    detected # Undefined =>
        Val(detected) = (2 * BrailleUnits(brailleInput) > Len(brailleInput))

\* a text of ten characters, exactly five of them Braille, was classified
\* as not Braille
C19_Witness ==
    /\ Len(brailleInput) = 10
    /\ BrailleUnits(brailleInput) = 5
    /\ detected = Some(FALSE)

\* C20: the renderer without alreadyBraille displays an already-Braille
\* text unchanged, and in particular displays every result of toBraille
\* unchanged.
C20_DetectionPathIsIdentity ==
    (/\ rendered # Undefined
     /\ ~Val(rendered).alreadyBraille
     /\ \/ fromToBraille
        \/ \A k \in 1..Len(brailleInput) : InBrailleBlock(brailleInput[k]))
    => Val(rendered).displayText = brailleInput

\* ------------------------------------------------- SubmissionDetail, again
\* C21: every Accept click and every Download click yields the plain-text
\* file exactly once, with the feedback text the click passed, whether the
\* analysis call succeeded or failed; the file is never produced twice.
C21_TextFileOncePerClick ==
    /\ Len(downloads) = acceptClicks + downloadClicks
    /\ Len(artifacts) = Len(downloads)
    /\ \A t \in Tasks :
          /\ Cardinality(TxtFiles(t)) <= 1
          /\ Settled(t) => Cardinality(TxtFiles(t)) = 1
          /\ \A i \in TxtFiles(t) :
                artifacts[t][i].content.feedback = downloads[t].feedback

\* an export whose analysis call failed, and a custom-feedback export
C21_Witness ==
    /\ \E t \in Tasks :
          /\ downloads[t].analysis = "failed"
          /\ downloads[t].kind = "accept"
          /\ Cardinality(TxtFiles(t)) = 1
    /\ \E t \in Tasks :
          /\ downloads[t].kind = "reject"
          /\ downloads[t].analysis = "failed"
          /\ Cardinality(TxtFiles(t)) = 1

\* C22: the translation fallback and grading do not disturb each other: a
\* step of one leaves the state of the other alone, each response can be
\* taken while the other request is pending, and once both have succeeded
\* the view holds the fetched submission with the translation merged and
\* the stored grade, whatever the order of arrival.
TranslationState == <<data, translating, translateReq, translateCalls>>
GradingState == <<aiGrade, grading, gradeReq, autogradeCalls>>

C22_TranslationAndGradingIndependent ==
    /\ []((translateReq = "ok" /\ gradeReq = "ok") =>
              /\ IsDefined(data)
              /\ IsDefined(FirstAnswer(Val(data)).english_text)
              /\ WithoutEnglish(Val(data)) = WithoutEnglish(Val(fetched))
              /\ IsDefined(aiGrade)
              /\ ~translating
              /\ ~grading)
    /\ []((translateReq = "pending" /\ gradeReq = "pending") =>
              /\ ENABLED TranslateResolve("e")
              /\ \A grade \in SampleGrades : ENABLED AutogradeResolve(grade))
    /\ [][(fetchReq' = fetchReq /\ TranslationState' # TranslationState)
             => GradingState' = GradingState]_vars
    /\ [][(GradingState' # GradingState) => TranslationState' = TranslationState]_vars

\* the grade arrived and was stored while the translation was still pending
C22_Witness ==
    /\ translateReq = "pending"
    /\ gradeReq = "ok"
    /\ IsDefined(aiGrade)
    /\ ~IsDefined(FirstAnswer(Val(data)).english_text)

\* ------------------------------------------------------ AssignmentPage, again
CallsOf(op, r) == {k \in 1..Len(httpCalls) : httpCalls[k].op = op /\ httpCalls[k].run = r}

\* C23: within a run generateLessonPack is requested after createAssignment
\* has completed, only when it returned an assignment id, and with that id;
\* a run whose createAssignment step fails requests nothing more, raises
\* the failure alert and clears loading.
C23_CreateBeforeGenerate ==
    /\ [](\A r \in 1..Len(runs) :
              /\ Cardinality(CallsOf("createAssignment", r)) = 1
              /\ Cardinality(CallsOf("generateLessonPack", r)) <= 1
              /\ runs[r].stage = "createAssignment" =>
                     CallsOf("generateLessonPack", r) = {}
              /\ ~IsDefined(runs[r].assignmentId) =>
                     CallsOf("generateLessonPack", r) = {}
              /\ \A g \in CallsOf("generateLessonPack", r) :
                     /\ \A c \in CallsOf("createAssignment", r) : c < g
                     /\ IsDefined(runs[r].assignmentId)
                     /\ httpCalls[g].assignment_id
                            = Some(IF Val(runs[r].assignmentId) = 1 THEN "1" ELSE "2"))
    /\ [][\A r \in 1..Len(runs) :
              (runs[r].stage = "createAssignment" /\ runs'[r].stage = "failed")
              => /\ httpCalls' = httpCalls
                 /\ assignmentAlerts' =
                        Append(assignmentAlerts, "Failed to generate lesson pack")
                 /\ ~assignmentLoading']_vars

\* a first run failed at createAssignment, a second one was given id 2 and
\* went on to generateLessonPack
C23_Witness ==
    /\ Len(runs) = 2
    /\ runs[1].stage = "failed"
    /\ ~IsDefined(runs[1].assignmentId)
    /\ runs[2].stage = "generateLessonPack"
    /\ runs[2].assignmentId = Some(2)
    /\ Len(httpCalls) = 3

\* C28: at most one generation is in progress: Generate cannot start a run
\* while loading is true, at most one run is in flight and at most one
\* stream is open in every state, and loading is true exactly while a run
\* has not settled.
RunsInFlight == {r \in 1..Len(runs) : InFlight(r)}
OpenStreams == {r \in 1..Len(streams) : streams[r] = "open"}

C28_OneGenerationAtATime ==
    /\ [](/\ Cardinality(RunsInFlight) <= 1
          /\ Cardinality(OpenStreams) <= 1
          /\ OpenStreams \subseteq RunsInFlight
          /\ assignmentLoading <=> RunsInFlight # {}
          /\ assignmentLoading => ~ENABLED GenerateClick)
    /\ [][assignmentLoading => Len(runs') = Len(runs)]_vars

\* a second generation is in flight with its stream open after the first
\* one has settled
C28_Witness ==
    /\ Len(runs) = 2
    /\ Finished(1)
    /\ InFlight(2)
    /\ streams = <<"closed", "open">>
    /\ assignmentLoading

\* C29: the list of diagram items is never empty, whatever is added,
\* deleted (the delete button exists on every card but the first) or
\* edited, so validation and request building always see a diagram.
C29_ItemsNeverEmpty ==
    /\ [](Len(items) >= 1)
    /\ [][Len(items') >= Len(items) - 1 /\ (Len(items') < Len(items) => items'[1] = items[1])]_vars

\* two items on the page: the second card offers delete, the first does not
C29_Witness ==
    /\ Len(items) = 2
    /\ items[2].prompt = <<"p">>
    /\ ENABLED removeItem(2)
    /\ ~ENABLED removeItem(1)

\* ---------------------------------------------------- SubmissionsPage, again
\* C26: every submission in the displayed list belongs to the selected
\* assignment, and the list is empty while no assignment is selected, for
\* every order of clicks, Back clicks and fetchSubmissions responses.
C26_SubmissionsBelongToSelected ==
    /\ selected = Undefined => submissions = <<>>
    /\ selected # Undefined =>
           \A i \in 1..Len(submissions) : submissions[i].assignment_id = Val(selected).id

\* every fetchSubmission request, current or superseded, has settled
FetchesSettled ==
    /\ fetchReq \in {"ok", "failed"}
    /\ \A k \in 1..Len(staleFetches) : staleFetches[k].state # "pending"

\* C24: once every submission fetch has settled after the route id changed and
\* the fetch for the current id succeeded, the data held is the submission
\* fetched for the current id
C24_DataIsForCurrentId ==
    (routeChanges > 0 /\ FetchesSettled /\ fetchReq = "ok")
        => (IsDefined(data) /\ Val(data).id = id)

\* C25: a grade that is shown was requested for the submission it is shown
\* with, and a submission whose own load succeeded is not hidden behind the
\* load error of an earlier id
C25_GradeAndErrorBelongToDisplayed ==
    /\ (View = "Loaded" /\ IsDefined(aiGrade))
           => Val(aiGrade).explanation = Val(data).id
    /\ (FetchesSettled /\ fetchReq = "ok") => ~IsDefined(error)

PreviewsSettled == \A k \in 1..Len(previewReqs) : previewReqs[k].state # "pending"

\* the preview the latest (feedback, lang) pair calls for: empty for a blank
\* text or a failed request, else the result of the request made for the pair
LatestPreview ==
    IF BlankText(composerFeedback) \/ previewReqs = <<>> THEN <<>>
    ELSE LET last == previewReqs[Len(previewReqs)]
         IN IF last.state = "ok" THEN Val(last.result) ELSE <<>>

\* C27: once every text-to-Braille request has settled, the preview is the one
\* of the latest feedback text and language
C27_PreviewIsForLatestInput ==
    PreviewsSettled => braillePreview = LatestPreview

\* the selected student is one of the rows of the list
SelectedIsListed ==
    IsDefined(selectedStudent)
        => \E i \in 1..Len(students) : students[i] = Val(selectedStudent)

\* C30: the selected student is none or a row of the loaded list; the step
\* that stores a non-empty fetch result selects its first row; after a failed
\* fetch the list is empty and nothing is selected
C30_SelectedStudentIsListed ==
    /\ []SelectedIsListed
    /\ [][(studentsReq = "pending" /\ studentsReq' = "ok" /\ students' # <<>>)
              => selectedStudent' = Some(students'[1])]_vars
    /\ [](studentsReq = "failed" => (students = <<>> /\ ~IsDefined(selectedStudent)))

\* a list of several rows was loaded and a row other than the first was clicked
C30_Witness ==
    /\ studentsReq = "ok"
    /\ Len(students) >= 2
    /\ selectedStudent = Some(students[2])

====
